---- MODULE Spec2Model ----
(***************************************************************************)
(* Model of ContextManager (src/backend/app/core/context_manager.py): the  *)
(* in-memory key/value store with TTL, the local cache, the store lock,    *)
(* the expiry sweep and bulk operations.                                   *)
(*                                                                         *)
(* Granularity.  The manager runs on one asyncio event loop, so a          *)
(* coroutine runs without interruption until an await really suspends.     *)
(* Every instance in the repository is built as ContextManager() with      *)
(* redis_url=None (context_manager.py:605, file_manager.py:93), so the     *)
(* Redis branches are not taken; the manager constructed with a redis_url  *)
(* is modelled apart (SetContextRedis, SweepRedis), because there the      *)
(* cache calls suspend inside the locked sections.                         *)
(* asyncio.Lock.acquire() returns without                                   *)
(* yielding when the lock is unlocked, and Queue.put() on an unbounded     *)
(* queue never yields.  Hence a call that finds the store lock free runs   *)
(* to its return in one step, and a call that finds it held is suspended   *)
(* in acquire() and queued in the lock's waiters.  The only place where    *)
(* the lock is held across a suspension is get_context's lazy-expiry       *)
(* branch, which awaits _delete_context while holding the lock.            *)
(*                                                                         *)
(* Time is the integer clock `now` (time.time()); keys are sequences of    *)
(* characters so that str.startswith is computed, not assumed.             *)
(***************************************************************************)
EXTENDS Integers, Sequences, FiniteSets, TLC

VARIABLES
    context_store,   \* self._context_store : key -> [value]
    ttl_store,       \* self._ttl_store     : key -> absolute deadline
    cache,           \* self._cache         : key -> [value, expiry]
    lock,            \* self._lock          : [locked, waiters]
    cache_ttl,       \* self.cache_ttl      (constructor parameter)
    max_cache_size,  \* self.max_cache_size (constructor parameter)
    is_running,      \* self._is_running
    now,             \* time.time()
    last,            \* the most recent call that returned, with its result
    hist,            \* per key, the last committed mutation (history)
    emitted,         \* events handed to _notify_subscribers by that call
    subscriptions,   \* self._subscriptions : prefix -> set of queues
    streams,         \* the generators of subscribe_to_changes, by id
    disk,            \* storage_path: the files context.tmp and context.json
    persist,         \* the _persist_data call in flight
    loading,         \* the _load_persisted_data call in flight
    durable,         \* the maps serialized into context.json (history)
    cleanup_task,    \* self._cleanup_task
    persistence_task,\* self._persistence_task
    stamps,          \* created_at / updated_at of the entries of some keys
    lock_at_notify,  \* self._lock as that call had it at its notification
    applied,         \* rank of the next mutation of the store (history)
    redis,           \* self._redis and the "context:<key>" entries it serves
    client,          \* a set_context call suspended with Redis connected
    sweeper          \* _cleanup_expired_loop suspended with Redis connected

subVars == <<subscriptions, streams>>
diskVars == <<disk, persist, loading, durable>>
taskVars == <<cleanup_task, persistence_task>>
auxVars == <<stamps, lock_at_notify, applied>>
redisVars == <<redis, client, sweeper>>

vars == <<context_store, ttl_store, cache, lock, cache_ttl, max_cache_size,
          is_running, now, last, hist, emitted, subVars, diskVars, taskVars,
          auxVars, redisVars>>

(***************************************************************************)
(* Bounds of the model.                                                    *)
(***************************************************************************)
MaxTime == 3
MaxTtl == 2
MaxWaiters == 2
CacheTtl == 2
MaxBulk == 3
MaxSubs == 2
MaxQueue == 2

(***************************************************************************)
(* Program constants.                                                      *)
(***************************************************************************)
DefaultMaxCacheSize == 10000

(***************************************************************************)
(* Input domains.                                                          *)
(***************************************************************************)
EmptyKey == << >>
KeyA == <<"a">>
KeyAB == <<"a", "b">>
KeyB == <<"b">>
Keys == {KeyA, KeyAB}
KeysHist == {KeyA, KeyB}
KeysValidate == {EmptyKey, KeyA}
Prefixes == {EmptyKey, KeyA, KeyAB}
Values == {"v1", "v2"}
None == "None"
NoTtl == << >>                      \* ttl=None
Ttls == {NoTtl} \cup {<<t>> : t \in (-1)..MaxTtl}
TtlsHist == {NoTtl} \cup {<<t>> : t \in 1..MaxTtl}
TtlsStore == {NoTtl, <<1>>}
SubIds == 1..MaxSubs
NonePrefix == <<None>>              \* key_prefix=None

(***************************************************************************)
(* Helpers on dicts (functions with a finite domain).                      *)
(***************************************************************************)
DictSet(d, k, v) == [x \in DOMAIN d \cup {k} |-> IF x = k THEN v ELSE d[x]]
DictDel(d, k) == [x \in DOMAIN d \ {k} |-> d[x]]
EmptyDict == [x \in {} |-> 0]

\* the orders in which the elements of S can be visited
Orders(S) ==
    {o \in [1..Cardinality(S) -> S] : \A i, j \in DOMAIN o : i # j => o[i] # o[j]}

\* str.startswith(prefix)
StartsWith(key, prefix) ==
    /\ Len(prefix) <= Len(key)
    /\ \A i \in 1..Len(prefix) : key[i] = prefix[i]

(***************************************************************************)
(* ContextItem validation (pydantic): key is any str, ttl is None or an    *)
(* int >= 1.                                                               *)
(***************************************************************************)
ContextItemValid(key, ttl) == ttl = NoTtl \/ ttl[1] >= 1

(***************************************************************************)
(* The local cache.                                                        *)
(***************************************************************************)
\* _get_from_cache: the value of a live entry, None otherwise
CacheLookup(c, key, t) ==
    IF key \in DOMAIN c /\ c[key].expiry > t THEN c[key].value ELSE None

\* _get_from_cache: an entry found expired is deleted
CacheAfterLookup(c, key, t) ==
    IF key \in DOMAIN c /\ ~(c[key].expiry > t) THEN DictDel(c, key) ELSE c

\* the n keys of c with the smallest expiry (sorted(...)[:n])
RECURSIVE OldestKeys(_, _)
OldestKeys(c, n) ==
    IF n = 0 \/ DOMAIN c = {} THEN {}
    ELSE LET k == CHOOSE x \in DOMAIN c :
                      \A y \in DOMAIN c : c[x].expiry <= c[y].expiry
         IN {k} \cup OldestKeys(DictDel(c, k), n - 1)

Max(a, b) == IF a >= b THEN a ELSE b

\* _update_cache without the eviction
UpdateCacheNoEvict(c, key, value, t, cttl, maxsize) ==
    DictSet(c, key, [value |-> value, expiry |-> t + cttl])

\* _update_cache
UpdateCache(c, key, value, t, cttl, maxsize) ==
    LET evicted == IF Cardinality(DOMAIN c) >= maxsize
                   THEN OldestKeys(c, Max(1, maxsize \div 10))
                   ELSE {}
        kept == [x \in DOMAIN c \ evicted |-> c[x]]
    IN DictSet(kept, key, [value |-> value, expiry |-> t + cttl])

\* _delete_from_cache
DeleteFromCache(c, key) == DictDel(c, key)

(***************************************************************************)
(* The store lock (asyncio.Lock): a flag and the queue of suspended        *)
(* acquire() calls.                                                        *)
(***************************************************************************)
LockFree == ~lock.locked
CanWait == Len(lock.waiters) < MaxWaiters
Call(op, key) == [op |-> op, key |-> key]     \* a suspended call
Suspend(call) == lock' = [lock EXCEPT !.waiters = Append(@, call)]

(***************************************************************************)
(* Events.  NoEvent..BulkEvent are Event.data of the events built by       *)
(* set_context, _delete_context and bulk_operation; EventDict is           *)
(* event.dict(), the value put on the subscribers' queues, whose           *)
(* event_type is EventType.CONTEXT_CHANGE for every change.                *)
(***************************************************************************)
NoEvent ==
    [operation |-> "none", key |-> EmptyKey, value |-> None,
     old_value |-> None, succeeded |-> 0, failed |-> 0]
SetEvent(key, value) ==
    [NoEvent EXCEPT !.operation = "set", !.key = key, !.value = value]
DeleteEvent(key, old) ==
    [NoEvent EXCEPT !.operation = "delete", !.key = key, !.old_value = old]
\* BulkEvent without the failure count
BulkEventNoFailed(succeeded, failed) ==
    [NoEvent EXCEPT !.operation = "bulk_update", !.succeeded = succeeded]
BulkEvent(succeeded, failed) ==
    [NoEvent EXCEPT !.operation = "bulk_update", !.succeeded = succeeded,
                    !.failed = failed]
EventDict(data) ==
    [event_type |-> "context_change", data |-> data, mutation |-> 0]
NoEventDict == [event_type |-> "none", data |-> NoEvent, mutation |-> 0]

\* History: a specification that starts with applied >= 1 ranks the
\* mutations of the store in the order in which they are applied, and an
\* event carries the rank of the mutation it reports (mutation); with
\* applied = 0 the ranks are not followed and every event carries 0.
Advance(a, n) == IF a = 0 THEN 0 ELSE a + n
Ranked(ed, rank) == [ed EXCEPT !.mutation = rank]

(***************************************************************************)
(* The record of a returned call: its name, its arguments, the time of     *)
(* the call and the value returned.  Arguments and results are records of  *)
(* one shape, with the fields a call does not use at their defaults.       *)
(***************************************************************************)
NoArgs ==
    [key |-> EmptyKey, value |-> None, ttl |-> NoTtl, use_cache |-> FALSE,
     prefix |-> EmptyKey, operations |-> << >>, fail_fast |-> FALSE,
     sub |-> 0]
SetArgs(key, value, ttl) ==
    [NoArgs EXCEPT !.key = key, !.value = value, !.ttl = ttl]
GetArgs(key, use_cache) == [NoArgs EXCEPT !.key = key, !.use_cache = use_cache]
DeleteArgs(key) == [NoArgs EXCEPT !.key = key]
ListArgs(prefix) == [NoArgs EXCEPT !.prefix = prefix]
SubArgs(id) == [NoArgs EXCEPT !.sub = id]
BulkArgs(operations, fail_fast) ==
    [NoArgs EXCEPT !.operations = operations, !.fail_fast = fail_fast]

NoRet ==
    [ok |-> FALSE, value |-> None, keys |-> {}, succeeded |-> 0,
     failed |-> 0, errors |-> << >>, raised |-> FALSE,
     event |-> NoEventDict]
RetBool(b) == [NoRet EXCEPT !.ok = b]            \* True / False
RetValue(v) == [NoRet EXCEPT !.value = v]        \* a value or None
RetKeys(ks) == [NoRet EXCEPT !.keys = ks]        \* a list of keys
RetBulk(succeeded, failed, errors) ==            \* the results dict
    [NoRet EXCEPT !.succeeded = succeeded, !.failed = failed,
                  !.errors = errors]

RetRaised == [NoRet EXCEPT !.raised = TRUE]       \* the call raised
RetEvent(e) == [NoRet EXCEPT !.event = e]        \* a yielded event

Returned(op, args, ret) == [op |-> op, args |-> args, at |-> now, ret |-> ret]

(***************************************************************************)
(* History of the committed mutations, per tracked key (the domain of      *)
(* hist): how the key was last mutated, the value written, the value that  *)
(* write replaced (None if the key was absent) and the expiry deadline the *)
(* write removed (<<d>>, or << >> if none).  A specification tracks the    *)
(* keys its Init puts in the domain.                                       *)
(***************************************************************************)
HistEntry(how, value, replaced, cleared) ==
    [how |-> how, value |-> value, replaced |-> replaced,
     cleared |-> cleared]
NoHist == HistEntry("never", None, None, << >>)

HistSet(h, cs, ts, key, value, ttl) ==
    [k \in DOMAIN h |->
        IF k = key
        THEN HistEntry("set", value,
                       IF key \in DOMAIN cs THEN cs[key].value ELSE None,
                       IF ttl = NoTtl /\ key \in DOMAIN ts
                       THEN <<ts[key]>> ELSE << >>)
        ELSE h[k]]
HistDelete(h, keys, how) ==
    [k \in DOMAIN h |->
        IF k \in keys THEN HistEntry(how, None, None, << >>) ELSE h[k]]

(***************************************************************************)
(* The timestamps of the entries of context_store, kept for the keys a     *)
(* specification puts in the domain of stamps: created_at and updated_at   *)
(* as set_context wrote them, NoStamps for a key that is absent or whose   *)
(* entry was written by a call the timestamps do not follow (a bulk        *)
(* operation, the load of a snapshot).                                     *)
(***************************************************************************)
NoStamps == [created_at |-> -1, updated_at |-> -1]

\* "created_at": time.time(), "updated_at": time.time() of set_context
StampSet(s, key, t) ==
    [k \in DOMAIN s |->
        IF k = key THEN [created_at |-> t, updated_at |-> t] ELSE s[k]]

\* del self._context_store[key]
StampDel(s, keys) ==
    [k \in DOMAIN s |-> IF k \in keys THEN NoStamps ELSE s[k]]

(***************************************************************************)
(* Where a call hands its event to _notify_subscribers: set_context and    *)
(* _delete_context do it inside `async with self._lock`, bulk_operation    *)
(* after its loop, where it holds no lock.                                 *)
(***************************************************************************)
\* LockAtNotify of calls that notify after leaving the locked section
LockAtNotifyReleased(op) == "free"

LockAtNotify(op) == IF op = "bulk" THEN "free" ELSE "held"

\* a call returns
Return(op, args, ret) == last' = Returned(op, args, ret)

(***************************************************************************)
(* The subscription registry.  self._subscriptions is a dict in insertion  *)
(* order, here the sequence of its items [prefix, queues]; a queue is      *)
(* named by the id of the generator that created it and its content is     *)
(* streams[id].queue.  A stream is "new" until its first __anext__ runs    *)
(* the body up to queue.get(), "open" while registered, "closed" after     *)
(* its finally block, when the generator's frame (its arguments and its    *)
(* reference to the queue) is released.                                    *)
(***************************************************************************)
NewStream ==
    [state |-> "new", key_prefix |-> EmptyKey, event_types |-> {},
     queue |-> << >>]
ClosedStream == [NewStream EXCEPT !.state = "closed"]

\* self._subscriptions[key_prefix].add(queue)
Register(reg, prefix, id) ==
    IF \E i \in DOMAIN reg : reg[i].prefix = prefix
    THEN [i \in DOMAIN reg |->
             IF reg[i].prefix = prefix
             THEN [reg[i] EXCEPT !.queues = @ \cup {id}] ELSE reg[i]]
    ELSE Append(reg, [prefix |-> prefix, queues |-> {id}])

\* as Deregister, without the removal
DeregisterKeepQueue(reg, prefix, id) == reg

\* the finally block: self._subscriptions[key_prefix].remove(queue)
Deregister(reg, prefix, id) ==
    [i \in DOMAIN reg |->
        IF reg[i].prefix = prefix
        THEN [reg[i] EXCEPT !.queues = @ \ {id}] ELSE reg[i]]

\* key.startswith(prefix) raises TypeError for prefix=None
StartsWithRaises(prefix) == prefix = NonePrefix

\* PrefixMatches of a loop that puts the event on every queue
PrefixMatchesAny(key, prefix) == TRUE

\* the test of _notify_subscribers: key.startswith(prefix) or not prefix
PrefixMatches(key, prefix) == StartsWith(key, prefix) \/ prefix = EmptyKey

\* as PutAll, the event put at the front of the queue
PutAllFront(st, ids, ed) ==
    [id \in DOMAIN st |->
        IF id \in ids THEN [st[id] EXCEPT !.queue = <<ed>> \o @]
        ELSE st[id]]

\* await queue.put(event_dict) for the queues of one registry item
PutAll(st, ids, ed) ==
    [id \in DOMAIN st |->
        IF id \in ids THEN [st[id] EXCEPT !.queue = Append(@, ed)]
        ELSE st[id]]

\* _notify_subscribers(key, event): the streams afterwards, and whether
\* the TypeError of startswith(None) ended the loop
RECURSIVE NotifySubscribers(_, _, _, _)
NotifySubscribers(reg, st, key, ed) ==
    IF reg = << >> THEN [streams |-> st, raised |-> FALSE]
    ELSE IF StartsWithRaises(Head(reg).prefix)
    THEN [streams |-> st, raised |-> TRUE]
    ELSE NotifySubscribers(
             Tail(reg),
             IF PrefixMatches(key, Head(reg).prefix)
             THEN PutAll(st, Head(reg).queues, ed) ELSE st,
             key, ed)

(***************************************************************************)
(* The three dicts as one value, so that the locked sections are functions *)
(* of the state that bulk_operation can chain.                             *)
(***************************************************************************)
Dicts == [context_store |-> context_store, ttl_store |-> ttl_store,
          cache |-> cache]

SetDicts(d) ==
    /\ context_store' = d.context_store
    /\ ttl_store' = d.ttl_store
    /\ cache' = d.cache

\* SetTtl without its elif branch: a deadline set earlier is kept
SetTtlKeepDeadline(ts, key, ttl, t) ==
    IF ttl # NoTtl /\ ttl[1] > 0 THEN DictSet(ts, key, t + ttl[1])
    ELSE ts

\* the ttl branch of set_context
SetTtl(ts, key, ttl, t) ==
    IF ttl # NoTtl /\ ttl[1] > 0 THEN DictSet(ts, key, t + ttl[1])
    ELSE IF key \in DOMAIN ts THEN DictDel(ts, key)
    ELSE ts

\* LockedSet that leaves an entry already in the cache as it is
LockedSetStaleCache(d, key, value, ttl, t, cttl, maxsize) ==
    [context_store |-> DictSet(d.context_store, key, [value |-> value]),
     ttl_store |-> SetTtl(d.ttl_store, key, ttl, t),
     cache |-> IF key \in DOMAIN d.cache THEN d.cache
               ELSE UpdateCache(d.cache, key, value, t, cttl, maxsize)]

\* the locked section of set_context
LockedSet(d, key, value, ttl, t, cttl, maxsize) ==
    [context_store |-> DictSet(d.context_store, key, [value |-> value]),
     ttl_store |-> SetTtl(d.ttl_store, key, ttl, t),
     cache |-> UpdateCache(d.cache, key, value, t, cttl, maxsize)]

\* LockedDelete without the removal of the deadline
LockedDeleteKeepTtl(d, key) ==
    [context_store |-> DictDel(d.context_store, key),
     ttl_store |-> d.ttl_store,
     cache |-> DeleteFromCache(d.cache, key)]

\* LockedDelete without the call of _delete_from_cache
LockedDeleteKeepCache(d, key) ==
    [context_store |-> DictDel(d.context_store, key),
     ttl_store |-> DictDel(d.ttl_store, key),
     cache |-> d.cache]

\* the locked section of _delete_context, for a key of the store
LockedDelete(d, key) ==
    [context_store |-> DictDel(d.context_store, key),
     ttl_store |-> DictDel(d.ttl_store, key),
     cache |-> DeleteFromCache(d.cache, key)]

(***************************************************************************)
(* The storage directory and the snapshot codec.  A file is absent or has  *)
(* a text; the text written by _persist_data is the sequence of the        *)
(* tokens of orjson.dumps(snapshot): one per entry of context_store, one   *)
(* per entry of ttl_store, the timestamp and the closing brace.  A text    *)
(* without the closing brace does not parse.                               *)
(***************************************************************************)
NoFile == [exists |-> FALSE, text |-> << >>]
File(text) == [exists |-> TRUE, text |-> text]

\* context.tmp written in place of context.json
TempPathFinal == "json"
TempPath == "tmp"                     \* storage_path / "context.tmp"
FinalPath == "json"                   \* storage_path / "context.json"

\* aiofiles.os.replace(src, dst)
Replace(d, src, dst) ==
    IF src = dst THEN d ELSE [d EXCEPT ![dst] = d[src], ![src] = NoFile]

Token(kind, key, value, number) ==
    [kind |-> kind, key |-> key, value |-> value, number |-> number]

\* the keys of a dict in the order of its items
KeySeq(S) == CHOOSE o \in Orders(S) : TRUE

\* SnapshotText without the entries of ttl_store
SnapshotTextNoTtl(cs, ts, t) ==
    LET ck == KeySeq(DOMAIN cs) IN
    [i \in 1..Len(ck) |->
        Token("context_store", ck[i], cs[ck[i]].value, 0)]
    \o <<Token("timestamp", EmptyKey, None, t),
         Token("end", EmptyKey, None, 0)>>

\* orjson.dumps({"context_store": cs, "ttl_store": ts, "timestamp": t})
SnapshotText(cs, ts, t) ==
    LET ck == KeySeq(DOMAIN cs)
        tk == KeySeq(DOMAIN ts)
    IN [i \in 1..Len(ck) |->
           Token("context_store", ck[i], cs[ck[i]].value, 0)]
       \o [i \in 1..Len(tk) |-> Token("ttl_store", tk[i], None, ts[tk[i]])]
       \o <<Token("timestamp", EmptyKey, None, t),
            Token("end", EmptyKey, None, 0)>>

\* orjson.loads(text) returns (does not raise JSONDecodeError)
Parses(text) == text # << >> /\ text[Len(text)].kind = "end"

\* data.get("context_store", {}) and data.get("ttl_store", {})
LoadedStore(text) ==
    LET at == {i \in DOMAIN text : text[i].kind = "context_store"} IN
    [k \in {text[i].key : i \in at} |->
        [value |-> text[CHOOSE i \in at : text[i].key = k].value]]
LoadedTtl(text) ==
    LET at == {i \in DOMAIN text : text[i].kind = "ttl_store"} IN
    [k \in {text[i].key : i \in at} |->
        text[CHOOSE i \in at : text[i].key = k].number]

\* a _persist_data call: where it is (pc), who awaits it (owner), the
\* timestamp of its snapshot, the text it serialized and the maps that
\* text was made from.  The snapshot holds references to the live dicts
\* (live) unless a load has rebound self._context_store since.  History:
\* seen is the content of the two maps when the snapshot was taken under
\* the lock, followed by the specifications that track a key (hist).
NoSeen == [cs |-> EmptyDict, ts |-> EmptyDict]
Seen ==
    IF DOMAIN hist = {} THEN NoSeen
    ELSE [cs |-> context_store, ts |-> ttl_store]
IdlePersist ==
    [pc |-> "idle", owner |-> "none", at |-> 0, doc |-> << >>,
     live |-> TRUE, cs |-> EmptyDict, ts |-> EmptyDict, seen |-> NoSeen]
IdleLoading == [pc |-> "idle", text |-> << >>]
NoDurable == [exists |-> FALSE, cs |-> EmptyDict, ts |-> EmptyDict, at |-> 0]
Durable(p) == [exists |-> TRUE, cs |-> p.cs, ts |-> p.ts, at |-> p.at]

(***************************************************************************)
(* Redis: whether a redis_url was given (self._redis_enabled), the pool    *)
(* self._redis (None until initialize() has connected) and the entries     *)
(* "context:<key>" of the server.  With the pool connected the cache       *)
(* calls await Redis, so set_context and _delete_context suspend while     *)
(* they hold the store lock: client is the set_context call in flight and  *)
(* sweeper the expiry loop, each with its position (pc).                   *)
(***************************************************************************)
NoRedis == [url |-> FALSE, pool |-> "none", data |-> EmptyDict]
WithRedis == [url |-> TRUE, pool |-> "none", data |-> EmptyDict]
RedisUp == redis.url /\ redis.pool = "connected"

IdleClient ==
    [pc |-> "idle", key |-> EmptyKey, value |-> None, ttl |-> NoTtl,
     issued |-> 0, mutation |-> 0]
IdleSweeper ==
    [pc |-> "sleep", keys |-> << >>, old |-> None, expired |-> {},
     mutation |-> 0]

(***************************************************************************)
(* Initial state: a freshly constructed manager (__init__).                *)
(***************************************************************************)
ConstructedWith(size) ==
    /\ context_store = EmptyDict
    /\ ttl_store = EmptyDict
    /\ cache = EmptyDict
    /\ lock = [locked |-> FALSE, waiters |-> << >>]
    /\ cache_ttl = CacheTtl
    /\ max_cache_size = size
    /\ is_running = FALSE
    /\ now = 0
    /\ last = Returned("init", NoArgs, NoRet)
    /\ emitted = << >>
    /\ lock_at_notify = "none"
    /\ subscriptions = << >>
    /\ streams = [id \in SubIds |-> NewStream]
    /\ disk = [tmp |-> NoFile, json |-> NoFile]
    /\ persist = IdlePersist
    /\ loading = IdleLoading
    /\ durable = NoDurable
    /\ cleanup_task = "none"
    /\ persistence_task = "none"
    /\ client = IdleClient
    /\ sweeper = IdleSweeper

\* ContextManager() with the default max_cache_size
Constructed == ConstructedWith(DefaultMaxCacheSize)

Init ==
    /\ Constructed
    /\ hist = EmptyDict
    /\ stamps = EmptyDict
    /\ applied = 0
    /\ redis = NoRedis

(***************************************************************************)
(* The clock advances.                                                     *)
(***************************************************************************)
Tick ==
    /\ now < MaxTime
    /\ now' = now + 1
    /\ UNCHANGED <<context_store, ttl_store, cache, lock, cache_ttl,
                   max_cache_size, is_running, last, hist, stamps, applied,
                   emitted, lock_at_notify,
                   subVars, diskVars, taskVars>>
    /\ UNCHANGED redisVars

(***************************************************************************)
(* initialize(): marks the manager running, loads the snapshot and starts  *)
(* the background loops.  When no snapshot file exists                     *)
(* _load_persisted_data returns without suspending; otherwise the call     *)
(* suspends in the file read and goes on in LoadPersisted.                 *)
(***************************************************************************)
\* asyncio.create_task of the two loops; a loop started when _is_running
\* is already False ends at once
StartTasks(running) ==
    /\ cleanup_task' = IF running THEN "running" ELSE "done"
    /\ persistence_task' = IF running THEN "running" ELSE "done"

\* initialize() from `if self.enable_persistence` on
LoadOrStart(running) ==
    IF disk[FinalPath].exists
    THEN /\ loading' = [pc |-> "loading", text |-> disk[FinalPath].text]
         /\ UNCHANGED taskVars
    ELSE /\ StartTasks(running)
         /\ UNCHANGED loading

Initialize ==
    /\ ~is_running
    /\ loading.pc = "idle"
    /\ redis.pool # "connecting"
    /\ is_running' = TRUE
    /\ IF redis.url
       THEN \* suspended in aioredis.create_redis_pool
            /\ redis' = [redis EXCEPT !.pool = "connecting"]
            /\ UNCHANGED <<loading, taskVars>>
       ELSE /\ LoadOrStart(TRUE)
            /\ UNCHANGED redis
    /\ UNCHANGED <<context_store, ttl_store, cache, lock, cache_ttl,
                   max_cache_size, now, last, hist, stamps, applied,
                   emitted, lock_at_notify, subVars, disk,
                   persist, durable, client, sweeper>>

\* the pool is connected and initialize() goes on
Connected ==
    /\ redis.pool = "connecting"
    /\ redis' = [redis EXCEPT !.pool = "connected"]
    /\ LoadOrStart(is_running)
    /\ UNCHANGED <<context_store, ttl_store, cache, lock, cache_ttl,
                   max_cache_size, is_running, now, last, hist,
                   stamps, applied,
                   emitted, lock_at_notify, subVars, disk,
                   persist, durable, client, sweeper>>

\* the rest of _load_persisted_data and of initialize()
LoadPersisted ==
    /\ loading.pc = "loading"
    /\ IF ~Parses(loading.text)
       THEN \* JSONDecodeError, logged: the store is left as it is
            /\ loading' = IdleLoading
            /\ StartTasks(is_running)
            /\ UNCHANGED <<context_store, ttl_store, lock, persist,
                           stamps, applied>>
       ELSE IF ~LockFree
       THEN /\ CanWait
            /\ Suspend(Call("load", EmptyKey))
            /\ loading' = [loading EXCEPT !.pc = "blocked"]
            /\ UNCHANGED <<context_store, ttl_store, persist, taskVars,
                           stamps, applied>>
       ELSE /\ context_store' = LoadedStore(loading.text)
            /\ ttl_store' = LoadedTtl(loading.text)
            /\ stamps' = [k \in DOMAIN stamps |-> NoStamps]
            /\ UNCHANGED applied
            \* a snapshot taken and not yet serialized keeps the dicts
            \* that were replaced
            /\ persist' = IF persist.pc = "opening" /\ persist.live
                          THEN [persist EXCEPT !.live = FALSE,
                                               !.cs = context_store,
                                               !.ts = ttl_store]
                          ELSE persist
            /\ loading' = IdleLoading
            /\ StartTasks(is_running)
            /\ UNCHANGED lock
    /\ UNCHANGED <<cache, cache_ttl, max_cache_size, is_running, now, last,
                   hist, emitted, lock_at_notify, subVars, disk, durable>>
    /\ UNCHANGED redisVars

(***************************************************************************)
(* set_context(key, value, ttl, notify=True)                               *)
(***************************************************************************)
SetContext(key, value, ttl) ==
    LET args == SetArgs(key, value, ttl) IN
    /\ IF ~ContextItemValid(key, ttl)
       THEN \* ValidationError: return False
            /\ Return("set", args, RetBool(FALSE))
            /\ UNCHANGED <<hist, stamps, applied>>
            /\ emitted' = << >>
            /\ lock_at_notify' = "none"
            /\ UNCHANGED <<context_store, ttl_store, cache, lock, streams>>
       ELSE IF ~LockFree
       THEN /\ CanWait
            /\ Suspend(Call("set", key))
            /\ UNCHANGED <<context_store, ttl_store, cache, last, hist,
                           stamps, applied,
                           emitted, lock_at_notify, streams>>
       ELSE LET n == NotifySubscribers(subscriptions, streams, key,
                            Ranked(EventDict(SetEvent(key, value)), applied))
            IN
            /\ SetDicts(LockedSet(Dicts, key, value, ttl, now, cache_ttl,
                                  max_cache_size))
            /\ emitted' = <<SetEvent(key, value)>>
            /\ lock_at_notify' = LockAtNotify("set")
            /\ stamps' = StampSet(stamps, key, now)
            /\ applied' = Advance(applied, 1)
            /\ streams' = n.streams
            \* an exception of _notify_subscribers is caught by
            \* `except Exception`: return False
            /\ Return("set", args, RetBool(~n.raised))
            /\ hist' = HistSet(hist, context_store, ttl_store, key, value,
                               ttl)
            /\ UNCHANGED lock
    /\ UNCHANGED <<cache_ttl, max_cache_size, is_running, now,
                   subscriptions, diskVars, taskVars>>
    /\ UNCHANGED redisVars

(***************************************************************************)
(* get_context(key, use_cache)                                             *)
(***************************************************************************)
\* the deadline test of get_context
GetExpired(ts, key, t) == key \in DOMAIN ts /\ ts[key] < t

GetContext(key, use_cache) ==
    LET args == GetArgs(key, use_cache)
        cached == IF use_cache THEN CacheLookup(cache, key, now) ELSE None
        cache1 == IF use_cache THEN CacheAfterLookup(cache, key, now)
                  ELSE cache
    IN
    /\ IF cached # None
       THEN /\ Return("get", args, RetValue(cached))
            /\ UNCHANGED <<hist, stamps, applied>>
            /\ emitted' = << >>
            /\ lock_at_notify' = "none"
            /\ UNCHANGED <<context_store, ttl_store, cache, lock>>
       ELSE IF ~LockFree
       THEN /\ CanWait
            /\ Suspend(Call("get", key))
            /\ cache' = cache1
            /\ UNCHANGED <<context_store, ttl_store, last, hist,
                           stamps, applied,
                           emitted, lock_at_notify>>
       ELSE IF key \notin DOMAIN context_store
       THEN /\ Return("get", args, RetValue(None))
            /\ UNCHANGED <<hist, stamps, applied>>
            /\ emitted' = << >>
            /\ lock_at_notify' = "none"
            /\ cache' = cache1
            /\ UNCHANGED <<context_store, ttl_store, lock>>
       ELSE IF GetExpired(ttl_store, key, now)
       THEN \* holding the lock, awaits _delete_context, which awaits
            \* self._lock.acquire(): the call is queued behind itself
            /\ lock' = [locked |-> TRUE,
                        waiters |-> <<Call("get_delete", key)>>]
            /\ cache' = cache1
            /\ UNCHANGED <<context_store, ttl_store, last, hist,
                           stamps, applied,
                           emitted, lock_at_notify>>
       ELSE /\ Return("get", args, RetValue(context_store[key].value))
            /\ UNCHANGED <<hist, stamps, applied>>
            /\ emitted' = << >>
            /\ lock_at_notify' = "none"
            /\ cache' = UpdateCache(cache1, key, context_store[key].value,
                                    now, cache_ttl, max_cache_size)
            /\ UNCHANGED <<context_store, ttl_store, lock>>
    /\ UNCHANGED <<cache_ttl, max_cache_size, is_running, now, subVars,
                   diskVars, taskVars>>
    /\ UNCHANGED redisVars

(***************************************************************************)
(* delete_context(key) = _delete_context(key, notify=True)                 *)
(***************************************************************************)
DeleteContext(key) ==
    LET args == DeleteArgs(key) IN
    /\ IF ~LockFree
       THEN /\ CanWait
            /\ Suspend(Call("delete", key))
            /\ UNCHANGED <<context_store, ttl_store, cache, last, hist,
                           stamps, applied,
                           emitted, lock_at_notify, streams>>
       ELSE IF key \notin DOMAIN context_store
       THEN /\ Return("delete", args, RetBool(FALSE))
            /\ UNCHANGED <<hist, stamps, applied>>
            /\ emitted' = << >>
            /\ lock_at_notify' = "none"
            /\ UNCHANGED <<context_store, ttl_store, cache, lock, streams>>
       ELSE LET event == DeleteEvent(key, context_store[key].value)
                n == NotifySubscribers(subscriptions, streams, key,
                                       Ranked(EventDict(event), applied))
            IN
            /\ SetDicts(LockedDelete(Dicts, key))
            /\ emitted' = <<event>>
            /\ lock_at_notify' = LockAtNotify("delete")
            /\ stamps' = StampDel(stamps, {key})
            /\ applied' = Advance(applied, 1)
            /\ streams' = n.streams
            \* an exception of _notify_subscribers reaches the caller
            /\ Return("delete", args,
                      IF n.raised THEN RetRaised ELSE RetBool(TRUE))
            /\ hist' = HistDelete(hist, {key}, "deleted")
            /\ UNCHANGED lock
    /\ UNCHANGED <<cache_ttl, max_cache_size, is_running, now,
                   subscriptions, diskVars, taskVars>>
    /\ UNCHANGED redisVars

(***************************************************************************)
(* list_keys(prefix)                                                       *)
(***************************************************************************)
\* the comprehension of list_keys (the keys as a set)
ListedKeys(cs, ts, prefix, t) ==
    {key \in DOMAIN cs :
        StartsWith(key, prefix) /\ (key \notin DOMAIN ts \/ ts[key] >= t)}

ListKeys(prefix) ==
    LET args == ListArgs(prefix) IN
    /\ IF ~LockFree
       THEN /\ CanWait
            /\ Suspend(Call("list", prefix))
            /\ UNCHANGED <<last, hist,
                           stamps, applied, emitted, lock_at_notify>>
       ELSE /\ Return("list", args,
                   RetKeys(ListedKeys(context_store, ttl_store, prefix,
                                      now)))
            /\ UNCHANGED <<hist, stamps, applied>>
            /\ emitted' = << >>
            /\ lock_at_notify' = "none"
            /\ UNCHANGED lock
    /\ UNCHANGED <<context_store, ttl_store, cache, cache_ttl,
                   max_cache_size, is_running, now, subVars, diskVars,
                   taskVars>>
    /\ UNCHANGED redisVars

(***************************************************************************)
(* One iteration of _cleanup_expired_loop: the keys whose deadline has     *)
(* passed are collected and deleted one by one through _delete_context     *)
(* (notify=True).  The dict order of _ttl_store is not part of the state,  *)
(* so the keys are visited in any order.  An exception of a delete ends    *)
(* the iteration (except Exception: log and sleep).                        *)
(***************************************************************************)
\* expired_keys of _cleanup_expired_loop
ExpiredKeys(ts, t) == {key \in DOMAIN ts : ts[key] <= t}

SweepStart(d, st) ==
    [d |-> d, streams |-> st, raised |-> FALSE, emitted |-> << >>,
     deleted |-> {}]

\* the for loop over expired_keys
RECURSIVE SweepDicts(_, _, _)
SweepDicts(acc, order, reg) ==
    IF order = << >> \/ acc.raised THEN acc
    ELSE IF Head(order) \notin DOMAIN acc.d.context_store
    THEN SweepDicts(acc, Tail(order), reg)
    ELSE LET key == Head(order)
             event == DeleteEvent(key, acc.d.context_store[key].value)
             rank == Advance(applied, Cardinality(acc.deleted))
             n == NotifySubscribers(reg, acc.streams, key,
                                    Ranked(EventDict(event), rank))
         IN SweepDicts([d |-> LockedDelete(acc.d, key),
                        streams |-> n.streams,
                        raised |-> n.raised,
                        emitted |-> Append(acc.emitted, event),
                        deleted |-> acc.deleted \cup {key}],
                       Tail(order), reg)

Sweep ==
    /\ is_running
    /\ cleanup_task = "running"
    /\ LET expired == ExpiredKeys(ttl_store, now) IN
       IF expired # {} /\ ~LockFree
       THEN /\ CanWait
            /\ \E key \in expired : Suspend(Call("sweep_delete", key))
            /\ UNCHANGED <<context_store, ttl_store, cache, last, hist,
                           stamps, applied,
                           emitted, lock_at_notify, streams>>
       ELSE \E order \in Orders(expired) :
            LET acc == SweepDicts(SweepStart(Dicts, streams), order,
                                  subscriptions)
            IN
            /\ SetDicts(acc.d)
            /\ emitted' = acc.emitted
            /\ lock_at_notify' = IF acc.emitted = << >> THEN "none"
                                 ELSE LockAtNotify("delete")
            /\ stamps' = StampDel(stamps, acc.deleted)
            /\ applied' = Advance(applied, Cardinality(acc.deleted))
            /\ streams' = acc.streams
            /\ Return("sweep", NoArgs,
                      [RetKeys(expired) EXCEPT !.raised = acc.raised])
            /\ hist' = HistDelete(hist, acc.deleted, "swept")
            /\ UNCHANGED lock
    /\ UNCHANGED <<cache_ttl, max_cache_size, is_running, now,
                   subscriptions, diskVars, taskVars>>
    /\ UNCHANGED redisVars

(***************************************************************************)
(* bulk_operation(operations, fail_fast)                                   *)
(*                                                                         *)
(* An operation dict is [operation, has_key, key, value, ttl]; has_key =   *)
(* FALSE is a dict without the "key" entry, for which op["key"] raises     *)
(* KeyError.                                                               *)
(***************************************************************************)
SetOp(key, value, ttl) ==
    [operation |-> "set", has_key |-> TRUE, key |-> key, value |-> value,
     ttl |-> ttl]
DeleteOp(key) ==
    [operation |-> "delete", has_key |-> TRUE, key |-> key, value |-> None,
     ttl |-> NoTtl]
OtherOp(kind, key) ==
    [operation |-> kind, has_key |-> TRUE, key |-> key, value |-> None,
     ttl |-> NoTtl]
KeylessSetOp(value) ==
    [operation |-> "set", has_key |-> FALSE, key |-> EmptyKey,
     value |-> value, ttl |-> NoTtl]

BulkOps ==
    {SetOp(KeyA, "v1", NoTtl), SetOp(KeyA, "v2", <<0>>),
     SetOp(EmptyKey, "v1", NoTtl), DeleteOp(KeyA), OtherOp("get", KeyA),
     KeylessSetOp("v1")}

\* the lists of at most MaxBulk pairwise distinct operations
BulkLists ==
    UNION {{l \in [1..n -> BulkOps] :
               \A i, j \in 1..n : i # j => l[i] # l[j]} : n \in 0..MaxBulk}

\* the body of the try block raises before any call is made
BulkRaises(op) ==
    \/ op.operation \notin {"set", "delete"}
    \/ ~op.has_key

\* str(e) of that exception
BulkRaiseText(op) ==
    IF op.operation \notin {"set", "delete"} THEN "Unsupported operation"
    ELSE "KeyError"

\* the call made for op has to take the store lock
BulkTakesLock(op) ==
    /\ ~BulkRaises(op)
    /\ op.operation = "set" => ContextItemValid(op.key, op.ttl)

\* `success` of the call made for op in the dicts d
BulkSuccess(d, op) ==
    IF op.operation = "set" THEN ContextItemValid(op.key, op.ttl)
    ELSE op.key \in DOMAIN d.context_store

\* the dicts after the successful call made for op
BulkApply(d, op, t, cttl, maxsize) ==
    IF op.operation = "set"
    THEN LockedSet(d, op.key, op.value, op.ttl, t, cttl, maxsize)
    ELSE LockedDelete(d, op.key)

BulkError(op, text) == [operation |-> op, error |-> text]

\* one iteration of the for loop; acc = [d, succeeded, failed, errors,
\* stopped (the break was taken), blocked (suspended on the store lock)]
BulkIteration(acc, op, fail_fast, free, t, cttl, maxsize) ==
    IF BulkRaises(op)
    THEN [acc EXCEPT !.errors = Append(@, BulkError(op, BulkRaiseText(op))),
                     !.failed = @ + 1,
                     !.stopped = fail_fast]
    ELSE IF BulkTakesLock(op) /\ ~free
    THEN [acc EXCEPT !.blocked = TRUE]
    ELSE IF BulkSuccess(acc.d, op)
    THEN [acc EXCEPT !.d = BulkApply(@, op, t, cttl, maxsize),
                     !.succeeded = @ + 1]
    ELSE IF fail_fast
    THEN \* failed is incremented, then the raised Exception is handled by
         \* the except clause, which increments it again
         [acc EXCEPT !.failed = @ + 2,
                     !.errors = Append(@, BulkError(op,
                                   "Operation failed and fail_fast is True")),
                     !.stopped = TRUE]
    ELSE [acc EXCEPT !.failed = @ + 1]

RECURSIVE BulkLoop(_, _, _, _, _, _, _)
BulkLoop(acc, ops, fail_fast, free, t, cttl, maxsize) ==
    IF ops = << >> \/ acc.stopped \/ acc.blocked THEN acc
    ELSE BulkLoop(BulkIteration(acc, Head(ops), fail_fast, free, t, cttl,
                                maxsize),
                  Tail(ops), fail_fast, free, t, cttl, maxsize)

BulkStart(d) ==
    [d |-> d, succeeded |-> 0, failed |-> 0, errors |-> << >>,
     stopped |-> FALSE, blocked |-> FALSE]

BulkOperation(operations, fail_fast) ==
    LET args == BulkArgs(operations, fail_fast) IN
    \E acc \in {BulkLoop(BulkStart(Dicts), operations, fail_fast, LockFree,
                          now, cache_ttl, max_cache_size)} :
    /\ IF acc.blocked
       THEN /\ CanWait
            /\ Suspend(Call("bulk", EmptyKey))
            /\ UNCHANGED <<context_store, ttl_store, cache, last, hist,
                           stamps, applied,
                           emitted, lock_at_notify, streams>>
       ELSE LET event == BulkEvent(acc.succeeded, acc.failed)
                n == IF acc.succeeded > 0
                     THEN NotifySubscribers(subscriptions, streams,
                                            EmptyKey, EventDict(event))
                     ELSE [streams |-> streams, raised |-> FALSE]
            IN
            /\ SetDicts(acc.d)
            /\ hist' = HistDelete(hist, {operations[i].key :
                                             i \in DOMAIN operations}, "bulk")
            /\ emitted' = IF acc.succeeded > 0 THEN <<event>> ELSE << >>
            /\ lock_at_notify' = IF acc.succeeded > 0
                                 THEN LockAtNotify("bulk") ELSE "none"
            /\ stamps' = StampDel(stamps, {operations[i].key :
                                               i \in DOMAIN operations})
            /\ applied' = Advance(applied, acc.succeeded)
            /\ streams' = n.streams
            \* an exception of _notify_subscribers reaches the caller
            /\ Return("bulk", args,
                      IF n.raised THEN RetRaised
                      ELSE RetBulk(acc.succeeded, acc.failed, acc.errors))
            /\ UNCHANGED lock
    /\ UNCHANGED <<cache_ttl, max_cache_size, is_running, now,
                   subscriptions, diskVars, taskVars>>
    /\ UNCHANGED redisVars

(***************************************************************************)
(* subscribe_to_changes(key_prefix, event_types): an async generator.      *)
(* Subscribe is its first __anext__, which creates the queue, registers it *)
(* and suspends in queue.get().                                            *)
(***************************************************************************)
Subscribe(id, key_prefix, event_types) ==
    /\ streams[id].state = "new"
    /\ subscriptions' = Register(subscriptions, key_prefix, id)
    /\ streams' = [streams EXCEPT ![id] =
                      [state |-> "open", key_prefix |-> key_prefix,
                       event_types |-> event_types, queue |-> << >>]]
    /\ UNCHANGED <<context_store, ttl_store, cache, lock, cache_ttl,
                   max_cache_size, is_running, now, last, hist,
                   stamps, applied,
                   emitted, lock_at_notify,
                   diskVars, taskVars>>
    /\ UNCHANGED redisVars

\* the filter of the while loop: the event is yielded, not skipped
PassesFilter(event_types, ed) ==
    ~(event_types # {} /\ ed.event_type \notin event_types)

\* queue.get() returns the oldest event, which is yielded to the consumer
\* or skipped by `continue`
StreamNext(id) ==
    /\ streams[id].state = "open"
    /\ streams[id].queue # << >>
    /\ streams' = [streams EXCEPT ![id].queue = Tail(@)]
    /\ IF PassesFilter(streams[id].event_types, Head(streams[id].queue))
       THEN /\ Return("yield", SubArgs(id),
                      RetEvent(Head(streams[id].queue)))
            /\ emitted' = << >>
            /\ lock_at_notify' = "none"
       ELSE UNCHANGED <<last, emitted, lock_at_notify>>
    /\ UNCHANGED <<context_store, ttl_store, cache, lock, cache_ttl,
                   max_cache_size, is_running, now, hist,
                   stamps, applied, subscriptions,
                   diskVars, taskVars>>
    /\ UNCHANGED redisVars

\* the consumer closes the generator (aclose) or its task is cancelled:
\* an open stream runs its finally block; a stream that never started or
\* has finished has no body left to run
StreamClose(id) ==
    /\ IF streams[id].state = "open"
       THEN /\ subscriptions' = Deregister(subscriptions,
                                           streams[id].key_prefix, id)
            /\ streams' = [streams EXCEPT ![id] = ClosedStream]
       ELSE IF streams[id].state = "new"
       THEN /\ streams' = [streams EXCEPT ![id] = ClosedStream]
            /\ UNCHANGED subscriptions
       ELSE UNCHANGED <<subscriptions, streams>>
    /\ Return("close", SubArgs(id), NoRet)
    /\ emitted' = << >>
    /\ lock_at_notify' = "none"
    /\ UNCHANGED <<context_store, ttl_store, cache, lock, cache_ttl,
                   max_cache_size, is_running, now, hist,
                   stamps, applied, diskVars,
                   taskVars>>
    /\ UNCHANGED redisVars

(***************************************************************************)
(* _persist_data(), called by _persistence_loop after each sleep and by    *)
(* shutdown().  It suspends in the open, the write and the rename of       *)
(* aiofiles, so it runs in four steps.  One call is in flight at a time:   *)
(* the loop calls it sequentially and shutdown() joins the loop first.     *)
(***************************************************************************)
\* the snapshot under the store lock, or the suspension in acquire()
TakeSnapshot(owner) ==
    IF LockFree
    THEN /\ persist' = [IdlePersist EXCEPT !.pc = "opening",
                                           !.owner = owner, !.at = now,
                                           !.seen = Seen]
         /\ UNCHANGED lock
    ELSE /\ CanWait
         /\ Suspend(Call("persist", EmptyKey))
         /\ persist' = [IdlePersist EXCEPT !.pc = "blocked",
                                           !.owner = owner]

PersistSnapshot ==
    /\ is_running
    /\ persistence_task = "running"
    /\ persist.pc = "idle"
    /\ TakeSnapshot("loop")
    /\ UNCHANGED <<context_store, ttl_store, cache, cache_ttl,
                   max_cache_size, is_running, now, last, hist,
                   stamps, applied,
                   emitted, lock_at_notify,
                   subVars, disk, loading, durable, taskVars>>
    /\ UNCHANGED redisVars

\* aiofiles.open(temp_path, "w") has created or truncated the file;
\* orjson.dumps(snapshot) serializes the dicts as they are now
PersistOpen ==
    /\ persist.pc = "opening"
    /\ LET cs == IF persist.live THEN context_store ELSE persist.cs
           ts == IF persist.live THEN ttl_store ELSE persist.ts
       IN persist' = [persist EXCEPT !.pc = "writing",
                                     !.doc = SnapshotText(cs, ts, persist.at),
                                     !.live = FALSE, !.cs = cs, !.ts = ts]
    /\ disk' = [disk EXCEPT ![TempPath] = File(<< >>)]
    /\ UNCHANGED <<context_store, ttl_store, cache, lock, cache_ttl,
                   max_cache_size, is_running, now, last, hist,
                   stamps, applied,
                   emitted, lock_at_notify,
                   subVars, loading, durable, taskVars>>
    /\ UNCHANGED redisVars

\* f.write(...) and the close of the file
PersistWrite ==
    /\ persist.pc = "writing"
    /\ persist' = [persist EXCEPT !.pc = "replacing"]
    /\ disk' = [disk EXCEPT ![TempPath] = File(persist.doc)]
    /\ UNCHANGED <<context_store, ttl_store, cache, lock, cache_ttl,
                   max_cache_size, is_running, now, last, hist,
                   stamps, applied,
                   emitted, lock_at_notify,
                   subVars, loading, durable, taskVars>>
    /\ UNCHANGED redisVars

\* aiofiles.os.replace(temp_path, final_path); _persist_data returns, and
\* with it shutdown() when it made the call
PersistReplace ==
    /\ persist.pc = "replacing"
    /\ disk' = Replace(disk, TempPath, FinalPath)
    /\ durable' = Durable(persist)
    /\ persist' = IdlePersist
    /\ IF persist.owner = "shutdown"
       THEN /\ Return("shutdown", NoArgs, RetBool(TRUE))
            /\ emitted' = << >>
            /\ lock_at_notify' = "none"
       ELSE UNCHANGED <<last, emitted, lock_at_notify>>
    /\ UNCHANGED <<context_store, ttl_store, cache, lock, cache_ttl,
                   max_cache_size, is_running, now, hist, stamps, applied,
                   subVars, loading,
                   taskVars>>
    /\ UNCHANGED redisVars

\* the files and the history after a _persist_data call is abandoned
\* where it stands: the file operation it was waiting for has taken
\* effect or has not, and a write cut by the end of the process (partial)
\* leaves any prefix of the text
Abandoned(d, p, dur, partial) ==
    IF p.pc = "opening"
    THEN {[disk |-> d, durable |-> dur],
          [disk |-> [d EXCEPT ![TempPath] = File(<< >>)], durable |-> dur]}
    ELSE IF p.pc = "writing"
    THEN {[disk |-> [d EXCEPT ![TempPath] = File(SubSeq(p.doc, 1, n))],
           durable |-> dur] :
             n \in IF partial THEN 0..Len(p.doc) ELSE {0, Len(p.doc)}}
    ELSE IF p.pc = "replacing"
    THEN {[disk |-> d, durable |-> dur],
          [disk |-> Replace(d, TempPath, FinalPath), durable |-> Durable(p)]}
    ELSE {[disk |-> d, durable |-> dur]}

(***************************************************************************)
(* shutdown(): a call on a manager that is not running returns at once.    *)
(* Otherwise both loops are cancelled and awaited (the loop's flush in     *)
(* flight is abandoned at its await) and _persist_data is called.          *)
(***************************************************************************)
Shutdown ==
    /\ persist.owner # "shutdown"
    /\ IF ~is_running
       THEN /\ Return("shutdown", NoArgs, RetBool(FALSE))
            /\ emitted' = << >>
            /\ lock_at_notify' = "none"
            /\ UNCHANGED <<is_running, lock, disk, persist, durable,
                           taskVars>>
       ELSE /\ is_running' = FALSE
            /\ cleanup_task' = IF cleanup_task = "none" THEN "none"
                               ELSE "done"
            /\ persistence_task' = IF persistence_task = "none" THEN "none"
                                   ELSE "done"
            /\ \E o \in Abandoned(disk, persist, durable, FALSE) :
                  disk' = o.disk /\ durable' = o.durable
            /\ TakeSnapshot("shutdown")
            /\ UNCHANGED <<last, emitted, lock_at_notify>>
    /\ UNCHANGED <<context_store, ttl_store, cache, cache_ttl,
                   max_cache_size, now, hist,
                   stamps, applied, subVars, loading>>
    /\ UNCHANGED redisVars

(***************************************************************************)
(* The process ends at any point and a new one constructs the manager:     *)
(* the memory is that of __init__, the files are what was on disk.         *)
(***************************************************************************)
Crash ==
    /\ \E o \in Abandoned(disk, persist, durable, TRUE) :
          disk' = o.disk /\ durable' = o.durable
    /\ context_store' = EmptyDict
    /\ ttl_store' = EmptyDict
    /\ cache' = EmptyDict
    /\ lock' = [locked |-> FALSE, waiters |-> << >>]
    /\ is_running' = FALSE
    /\ last' = Returned("init", NoArgs, NoRet)
    /\ emitted' = << >>
    /\ lock_at_notify' = "none"
    /\ hist' = [k \in DOMAIN hist |-> NoHist]
    /\ stamps' = [k \in DOMAIN stamps |-> NoStamps]
    /\ UNCHANGED applied
    /\ subscriptions' = << >>
    /\ streams' = [id \in SubIds |-> NewStream]
    /\ persist' = IdlePersist
    /\ loading' = IdleLoading
    /\ cleanup_task' = "none"
    /\ persistence_task' = "none"
    /\ UNCHANGED <<cache_ttl, max_cache_size, now>>
    /\ UNCHANGED redisVars

(***************************************************************************)
(* set_context and the expiry loop of a manager whose Redis pool is        *)
(* connected.  _update_cache and _delete_from_cache await Redis before     *)
(* they touch the local cache, so the locked section of a call runs in     *)
(* two steps, the lock held in between.  A call that finds the lock held,  *)
(* or free with calls waiting, queues in acquire() (asyncio.Lock is        *)
(* first-come first-served); release() wakes the first waiter, which       *)
(* takes the lock when it runs.                                            *)
(***************************************************************************)
LockBusy == lock.locked \/ lock.waiters # << >>
Released == [lock EXCEPT !.locked = FALSE]

\* set_context from `async with self._lock` to the await of redis.setex
SetLocked(key, value, ttl) ==
    /\ context_store' = DictSet(context_store, key, [value |-> value])
    /\ ttl_store' = SetTtl(ttl_store, key, ttl, now)
    /\ hist' = HistSet(hist, context_store, ttl_store, key, value, ttl)
    /\ stamps' = StampSet(stamps, key, now)
    /\ applied' = Advance(applied, 1)
    /\ client' = [pc |-> "redis", key |-> key, value |-> value,
                  ttl |-> ttl, issued |-> now, mutation |-> applied]

SetContextRedis(key, value, ttl) ==
    /\ RedisUp
    /\ client.pc = "idle"
    /\ IF ~ContextItemValid(key, ttl)
       THEN /\ Return("set", SetArgs(key, value, ttl), RetBool(FALSE))
            /\ emitted' = << >>
            /\ lock_at_notify' = "none"
            /\ UNCHANGED <<context_store, ttl_store, lock, hist,
                           stamps, applied,
                           client>>
       ELSE IF LockBusy
       THEN /\ Suspend(Call("set", key))
            /\ client' = [pc |-> "acquire", key |-> key, value |-> value,
                          ttl |-> ttl, issued |-> 0, mutation |-> 0]
            /\ UNCHANGED <<context_store, ttl_store, hist,
                           stamps, applied, last,
                           emitted, lock_at_notify>>
       ELSE /\ lock' = [lock EXCEPT !.locked = TRUE]
            /\ SetLocked(key, value, ttl)
            /\ UNCHANGED <<last, emitted, lock_at_notify>>
    /\ UNCHANGED <<cache, cache_ttl, max_cache_size, is_running, now,
                   subVars, diskVars, taskVars, redis, sweeper>>

\* the waiting set_context is woken and takes the lock
SetAcquired ==
    /\ client.pc = "acquire"
    /\ ~lock.locked
    /\ lock.waiters # << >>
    /\ Head(lock.waiters) = Call("set", client.key)
    /\ lock' = [locked |-> TRUE, waiters |-> Tail(lock.waiters)]
    /\ SetLocked(client.key, client.value, client.ttl)
    /\ UNCHANGED <<cache, cache_ttl, max_cache_size, is_running, now, last,
                   emitted, lock_at_notify, subVars, diskVars, taskVars,
                   redis, sweeper>>

\* redis.setex has returned: the local cache, the notification, the
\* return and the release of the lock
SetRedisDone ==
    /\ client.pc = "redis"
    /\ LET n == NotifySubscribers(subscriptions, streams, client.key,
                      Ranked(EventDict(SetEvent(client.key, client.value)),
                             client.mutation))
       IN /\ streams' = n.streams
          /\ Return("set", SetArgs(client.key, client.value, client.ttl),
                    RetBool(~n.raised))
    /\ redis' = [redis EXCEPT !.data =
                    DictSet(@, client.key,
                            [value |-> client.value,
                             expiry |-> client.issued + cache_ttl])]
    /\ cache' = UpdateCache(cache, client.key, client.value, client.issued,
                            cache_ttl, max_cache_size)
    /\ emitted' = <<SetEvent(client.key, client.value)>>
    /\ lock_at_notify' = LockAtNotify("set")
    /\ lock' = Released
    /\ client' = IdleClient
    /\ UNCHANGED <<context_store, ttl_store, cache_ttl, max_cache_size,
                   is_running, now, hist,
                   stamps, applied, subscriptions, diskVars,
                   taskVars, sweeper>>

\* `for key in expired_keys: await self._delete_context(key)` from the
\* first of keys on, up to the next suspension or the end of the
\* iteration: the call waits for the lock, returns False for a key that
\* is gone, or deletes the key and awaits redis.delete
\* _delete_context from `async with self._lock` to the await of
\* redis.delete, for a key of the store; lk is the lock as taken
SweepLocked(keys, expired, cs, ts, lk) ==
    [cs |-> DictDel(cs, Head(keys)), ts |-> DictDel(ts, Head(keys)),
     deleted |-> {Head(keys)}, lock |-> lk,
     sweeper |-> [pc |-> "redis", keys |-> keys,
                  old |-> cs[Head(keys)].value, expired |-> expired,
                  mutation |-> applied]]

RECURSIVE SweepCall(_, _, _, _, _)
SweepCall(keys, expired, cs, ts, lk) ==
    IF keys = << >>
    THEN [cs |-> cs, ts |-> ts, lock |-> lk, deleted |-> {},
          sweeper |-> IdleSweeper]
    ELSE IF lk.locked \/ lk.waiters # << >>
    THEN [cs |-> cs, ts |-> ts, deleted |-> {},
          lock |-> [lk EXCEPT !.waiters =
                       Append(@, Call("sweep_delete", Head(keys)))],
          sweeper |-> [pc |-> "acquire", keys |-> keys, old |-> None,
                       expired |-> expired, mutation |-> 0]]
    ELSE IF Head(keys) \notin DOMAIN cs
    THEN SweepCall(Tail(keys), expired, cs, ts, lk)
    ELSE SweepLocked(keys, expired, cs, ts, [lk EXCEPT !.locked = TRUE])

\* the state after a step of the loop, and its return when the iteration
\* has ended
SweepStep(r, expired, raised) ==
    /\ context_store' = r.cs
    /\ ttl_store' = r.ts
    /\ lock' = r.lock
    /\ sweeper' = r.sweeper
    /\ hist' = HistDelete(hist, r.deleted, "swept")
    /\ stamps' = StampDel(stamps, r.deleted)
    /\ applied' = Advance(applied, Cardinality(r.deleted))
    /\ IF r.sweeper.pc = "sleep"
       THEN Return("sweep", NoArgs,
                   [RetKeys(expired) EXCEPT !.raised = raised])
       ELSE UNCHANGED last

\* an iteration of _cleanup_expired_loop starts: the scan and the first
\* delete
SweepRedis ==
    /\ RedisUp
    /\ is_running
    /\ cleanup_task = "running"
    /\ sweeper.pc = "sleep"
    /\ \E order \in Orders(ExpiredKeys(ttl_store, now)) :
          SweepStep(SweepCall(order, ExpiredKeys(ttl_store, now),
                              context_store, ttl_store, lock),
                    ExpiredKeys(ttl_store, now), FALSE)
    /\ emitted' = << >>
    /\ lock_at_notify' = "none"
    /\ UNCHANGED <<cache, cache_ttl, max_cache_size, is_running, now,
                   subVars, diskVars, taskVars, redis, client>>

\* the waiting _delete_context is woken and takes the lock
SweepAcquired ==
    /\ sweeper.pc = "acquire"
    /\ ~lock.locked
    /\ lock.waiters # << >>
    /\ Head(lock.waiters) = Call("sweep_delete", Head(sweeper.keys))
    /\ SweepStep(IF Head(sweeper.keys) \in DOMAIN context_store
                 THEN SweepLocked(sweeper.keys, sweeper.expired,
                                  context_store, ttl_store,
                                  [locked |-> TRUE,
                                   waiters |-> Tail(lock.waiters)])
                 ELSE \* return False: the lock is released at once
                      SweepCall(Tail(sweeper.keys), sweeper.expired,
                                context_store, ttl_store,
                                [locked |-> FALSE,
                                 waiters |-> Tail(lock.waiters)]),
                 sweeper.expired, FALSE)
    /\ UNCHANGED <<cache, cache_ttl, max_cache_size, is_running, now,
                   emitted, lock_at_notify, subVars, diskVars, taskVars,
                   redis, client>>

\* redis.delete has returned: the local cache, the notification, the
\* release of the lock and the next key; an exception of the
\* notification ends the iteration
SweepRedisDone ==
    /\ sweeper.pc = "redis"
    /\ LET key == Head(sweeper.keys)
           event == DeleteEvent(key, sweeper.old)
           n == NotifySubscribers(subscriptions, streams, key,
                                  Ranked(EventDict(event),
                                         sweeper.mutation))
       IN /\ redis' = [redis EXCEPT !.data = DictDel(@, key)]
          /\ cache' = DeleteFromCache(cache, key)
          /\ streams' = n.streams
          /\ emitted' = <<event>>
          /\ lock_at_notify' = LockAtNotify("delete")
          /\ SweepStep(IF n.raised
                       THEN [cs |-> context_store, ts |-> ttl_store,
                             lock |-> Released, deleted |-> {},
                             sweeper |-> IdleSweeper]
                       ELSE SweepCall(Tail(sweeper.keys), sweeper.expired,
                                      context_store, ttl_store, Released),
                       sweeper.expired, n.raised)
    /\ UNCHANGED <<cache_ttl, max_cache_size, is_running, now,
                   subscriptions, diskVars, taskVars, client>>

Next ==
    \/ Tick
    \/ Initialize
    \/ \E k \in Keys, v \in Values, t \in Ttls : SetContext(k, v, t)
    \/ \E k \in Keys, c \in BOOLEAN : GetContext(k, c)
    \/ \E k \in Keys : DeleteContext(k)
    \/ \E p \in Prefixes : ListKeys(p)
    \/ Sweep

Spec == Init /\ [][Next]_vars
(***************************************************************************)
(* The single-key calls on two keys, with the history of KeyA tracked.     *)
(* KeyA is written with every value and ttl; KeyB, whose history is not    *)
(* tracked, shares the store, the cache and the sweep with one value and   *)
(* with no ttl or the shortest one.                                        *)
(***************************************************************************)
InitHist ==
    /\ Constructed
    /\ hist = [k \in {KeyA} |-> NoHist]
    /\ stamps = EmptyDict
    /\ applied = 0
    /\ redis = NoRedis

NextHist ==
    \/ Tick
    \/ Initialize
    \/ \E v \in Values, t \in TtlsHist : SetContext(KeyA, v, t)
    \/ \E t \in TtlsStore : SetContext(KeyB, "v1", t)
    \/ \E k \in KeysHist, c \in BOOLEAN : GetContext(k, c)
    \/ \E k \in KeysHist : DeleteContext(k)
    \/ Sweep

SpecHist == InitHist /\ [][NextHist]_vars

(***************************************************************************)
(* The calls on the keys and ttls that validation has to judge, the empty  *)
(* key included.                                                           *)
(***************************************************************************)
NextValidate ==
    \/ Tick
    \/ \E k \in KeysValidate, v \in Values, t \in Ttls : SetContext(k, v, t)
    \/ \E k \in KeysValidate, c \in BOOLEAN : GetContext(k, c)
    \/ \E k \in KeysValidate : DeleteContext(k)

SpecValidate == Init /\ [][NextValidate]_vars

(***************************************************************************)
(* Bulk operations interleaved with reads of the keys they write.          *)
(***************************************************************************)
NextBulk ==
    \/ \E ops \in BulkLists, ff \in BOOLEAN : BulkOperation(ops, ff)
    \/ \E k \in KeysValidate, c \in BOOLEAN : GetContext(k, c)

SpecBulk == Init /\ [][NextBulk]_vars

(***************************************************************************)
(* Every call that writes the value map and the expiry map: the single     *)
(* calls, the sweep and bulk operations that set deadlines.                *)
(***************************************************************************)
BulkOpsStore ==
    {SetOp(KeyA, "v1", <<1>>), DeleteOp(KeyA), SetOp(KeyB, "v1", <<1>>)}

BulkListsStore ==
    UNION {{l \in [1..n -> BulkOpsStore] :
               \A i, j \in 1..n : i # j => l[i] # l[j]} : n \in 1..MaxBulk}

NextStore ==
    \/ Tick
    \/ Initialize
    \/ \E k \in KeysHist, t \in TtlsStore : SetContext(k, "v1", t)
    \/ \E k \in KeysHist, c \in BOOLEAN : GetContext(k, c)
    \/ \E k \in KeysHist : DeleteContext(k)
    \/ \E ops \in BulkListsStore, ff \in BOOLEAN : BulkOperation(ops, ff)
    \/ Sweep

SpecStore == Init /\ [][NextStore]_vars

(***************************************************************************)
(* The life of the process: start with or without a snapshot, mutations,   *)
(* flushes, shutdown and the end of the process at any point.              *)
(***************************************************************************)
TtlsPersist == {NoTtl, <<1>>}

NextPersist ==
    \/ Initialize
    \/ LoadPersisted
    \/ \E v \in Values, t \in TtlsPersist : SetContext(KeyA, v, t)
    \/ SetContext(KeyB, "v1", NoTtl)
    \/ DeleteContext(KeyA)
    \/ PersistSnapshot
    \/ PersistOpen
    \/ PersistWrite
    \/ PersistReplace
    \/ Shutdown
    \/ Crash

SpecPersist == Init /\ [][NextPersist]_vars

(***************************************************************************)
(* Shutdown of a manager whose keys expire and are read.                   *)
(***************************************************************************)
NextShutdown ==
    \/ Tick
    \/ Initialize
    \/ LoadPersisted
    \/ \E t \in TtlsPersist : SetContext(KeyA, "v1", t)
    \/ GetContext(KeyA, FALSE)
    \/ Sweep
    \/ PersistSnapshot
    \/ PersistOpen
    \/ PersistWrite
    \/ PersistReplace
    \/ Shutdown

SpecShutdown == Init /\ [][NextShutdown]_vars

(***************************************************************************)
(* Change streams and the calls that notify them.  KeyAB and KeyB stand    *)
(* for "user:1" and "order:1", KeyA for the prefix "user:".  A mutation is *)
(* made while every queue holds fewer than MaxQueue events.                *)
(***************************************************************************)
KeysSub == {KeyAB, KeyB}
PrefixesSub == {EmptyKey, KeyA, NonePrefix}
EventTypesSub == {{}, {"set"}}
QueueRoom == \A id \in SubIds : Len(streams[id].queue) < MaxQueue

NextSub ==
    \/ \E id \in SubIds, p \in PrefixesSub, L \in EventTypesSub :
          Subscribe(id, p, L)
    \/ \E id \in SubIds : StreamNext(id)
    \/ \E id \in SubIds : StreamClose(id)
    \/ QueueRoom /\ \E k \in KeysSub : SetContext(k, "v1", NoTtl)
    \/ QueueRoom /\ \E k \in KeysSub : DeleteContext(k)

SpecSub == Init /\ [][NextSub]_vars

(***************************************************************************)
(* The life of the streams, from registration to close, around the         *)
(* mutations of two keys.                                                  *)
(***************************************************************************)
PrefixesClose == {EmptyKey, KeyA}

NextClose ==
    \/ \E id \in SubIds, p \in PrefixesClose : Subscribe(id, p, {})
    \/ \E id \in SubIds : StreamNext(id)
    \/ \E id \in SubIds : StreamClose(id)
    \/ QueueRoom /\ \E k \in KeysSub : SetContext(k, "v1", NoTtl)
    \/ QueueRoom /\ DeleteContext(KeyAB)

SpecClose == Init /\ [][NextClose]_vars
(***************************************************************************)
(* The expiry sweep as a loop that keeps running: _cleanup_expired_loop    *)
(* iterates for as long as _is_running holds, after every sleep and after  *)
(* every exception it logs, so an iteration that can run does run (weak    *)
(* fairness of Sweep).  Subscriptions with key_prefix=None make the        *)
(* notification of a delete raise.                                         *)
(***************************************************************************)
NextLive ==
    \/ Tick
    \/ Initialize
    \/ \E id \in SubIds : Subscribe(id, NonePrefix, {})
    \/ \E k \in KeysHist, t \in TtlsStore : SetContext(k, "v1", t)
    \/ \E k \in KeysHist, c \in BOOLEAN : GetContext(k, c)
    \/ DeleteContext(KeyA)
    \/ Sweep

SpecLive == Init /\ [][NextLive]_vars /\ WF_vars(Sweep)

(***************************************************************************)
(* A manager constructed with a redis_url: once the pool is connected,     *)
(* set_context calls (one in flight at a time) and the expiry loop run     *)
(* side by side.                                                           *)
(***************************************************************************)
InitRedis ==
    /\ Constructed
    /\ hist = EmptyDict
    /\ stamps = EmptyDict
    /\ applied = 0
    /\ redis = WithRedis

NextRedis ==
    \/ Tick
    \/ Initialize
    \/ Connected
    \/ \E k \in KeysHist, t \in TtlsStore : SetContextRedis(k, "v1", t)
    \/ SetAcquired
    \/ SetRedisDone
    \/ SweepRedis
    \/ SweepAcquired
    \/ SweepRedisDone

SpecRedis == InitRedis /\ [][NextRedis]_vars

(***************************************************************************)
(* The order of the events of one key.  The manager has Redis, so that     *)
(* the locked sections of set_context and of the sweep's _delete_context   *)
(* suspend and the two callers interleave; the mutations are ranked        *)
(* (applied starts at 1) and new ones are issued while fewer than          *)
(* MaxApplied were applied and the queues have room.                       *)
(***************************************************************************)
MaxApplied == 4
PrefixesOrder == {EmptyKey, KeyB}

InitOrder ==
    /\ Constructed
    /\ hist = EmptyDict
    /\ stamps = EmptyDict
    /\ applied = 1
    /\ redis = WithRedis

NextOrder ==
    \/ Tick
    \/ Initialize
    \/ Connected
    \/ \E p \in PrefixesOrder : Subscribe(1, p, {})
    \/ StreamNext(1)
    \/ /\ applied < MaxApplied
       /\ QueueRoom
       /\ \E k \in KeysHist, t \in TtlsStore : SetContextRedis(k, "v1", t)
    \/ SetAcquired
    \/ SetRedisDone
    \/ applied < MaxApplied /\ QueueRoom /\ SweepRedis
    \/ SweepAcquired
    \/ SweepRedisDone

SpecOrder == InitOrder /\ [][NextOrder]_vars

(***************************************************************************)
(* The timestamps of the entry of one key, written and overwritten at      *)
(* different times.                                                        *)
(***************************************************************************)
KeysStamps == {KeyA}

InitStamps ==
    /\ Constructed
    /\ hist = EmptyDict
    /\ stamps = [k \in KeysStamps |-> NoStamps]
    /\ applied = 0
    /\ redis = NoRedis

NextStamps ==
    \/ Tick
    \/ Initialize
    \/ \E k \in KeysStamps, v \in Values, t \in TtlsStore :
          SetContext(k, v, t)
    \/ \E k \in KeysStamps : DeleteContext(k)
    \/ Sweep

SpecStamps == InitStamps /\ [][NextStamps]_vars

(***************************************************************************)
(* Flushes and startup loads around the writes of one key, over the life   *)
(* of the process and of the one that follows it on the same files.        *)
(***************************************************************************)
NextFlush ==
    \/ Initialize
    \/ LoadPersisted
    \/ \E v \in Values : SetContext(KeyA, v, NoTtl)
    \/ DeleteContext(KeyA)
    \/ PersistSnapshot
    \/ PersistOpen
    \/ PersistWrite
    \/ PersistReplace
    \/ Crash

SpecFlush == InitHist /\ [][NextFlush]_vars

(***************************************************************************)
(* Change streams of a store that is written by bulk operations only:      *)
(* batches that set and delete "user:1" (KeyAB) and "order:1" (KeyB),      *)
(* made while the queues have room.                                        *)
(***************************************************************************)
BulkOpsNotify ==
    {SetOp(KeyAB, "v1", NoTtl), DeleteOp(KeyAB), SetOp(KeyB, "v1", NoTtl)}

BulkListsNotify ==
    UNION {{l \in [1..n -> BulkOpsNotify] :
               \A i, j \in 1..n : i # j => l[i] # l[j]} : n \in 1..MaxBulk}

NextBulkSub ==
    \/ \E id \in SubIds, p \in PrefixesClose : Subscribe(id, p, {})
    \/ \E id \in SubIds : StreamNext(id)
    \/ QueueRoom /\ \E ops \in BulkListsNotify, ff \in BOOLEAN :
                        BulkOperation(ops, ff)

SpecBulkSub == Init /\ [][NextBulkSub]_vars

(***************************************************************************)
(* A manager constructed with a small max_cache_size, or with one whose    *)
(* tenth is more than one entry, whose caller writes the keys "00", "01",  *)
(* ... one after the other, reads the first one and goes on until         *)
(* MaxCacheKeys keys are stored.                                           *)
(***************************************************************************)
MaxCacheKeys == 21
CacheSizes == {1, 2, 20}
Digit == <<"0", "1", "2", "3", "4", "5", "6", "7", "8", "9">>
KeyOf(i) == <<Digit[(i \div 10) + 1], Digit[(i % 10) + 1]>>
KeysRead == {KeyOf(0)}

InitCache ==
    /\ \E size \in CacheSizes : ConstructedWith(size)
    /\ hist = EmptyDict
    /\ stamps = EmptyDict
    /\ applied = 0
    /\ redis = NoRedis

NextCache ==
    \/ Tick
    \/ /\ Cardinality(DOMAIN context_store) < MaxCacheKeys
       /\ SetContext(KeyOf(Cardinality(DOMAIN context_store)), "v1", NoTtl)
    \/ \E k \in KeysRead : GetContext(k, TRUE)

SpecCache == InitCache /\ [][NextCache]_vars

(***************************************************************************)
(* Properties.                                                             *)
(***************************************************************************)
\* the call made in this step was suspended on the store lock
Suspended == lock'.waiters # lock.waiters

\* C1: a cache-enabled get_context of a key that carries the deadline T+t
\* returns the stored value when it is made before the deadline and None
\* when it is made at or after the deadline.
C1_ExpiryInvariant ==
    (/\ last.op = "get"
     /\ last.args.use_cache
     /\ last.args.key \in DOMAIN ttl_store)
    => last.ret.value = IF last.at < ttl_store[last.args.key]
                  THEN context_store[last.args.key].value
                  ELSE None

\* C2: a get_context that misses the cache and finds the key in the store
\* with a passed deadline returns None, leaves the key in neither map and
\* leaves the store lock free.
C2_LazyExpiryCompletes ==
    [][\A k \in Keys, c \in BOOLEAN :
        (/\ GetContext(k, c)
         /\ LockFree
         /\ c => CacheLookup(cache, k, now) = None
         /\ k \in DOMAIN context_store
         /\ k \in DOMAIN ttl_store
         /\ ttl_store[k] < now)
        => (/\ last' = Returned("get", GetArgs(k, c), RetValue(None))
            /\ k \notin DOMAIN context_store'
            /\ k \notin DOMAIN ttl_store'
            /\ ~lock'.locked)]_vars

\* C3: once set_context(k, v2) has returned True (replacing v1 or not), a
\* cache-enabled get_context(k) that returns before the next mutation of k
\* returns v2.
C3_NoStaleRead ==
    \A k \in DOMAIN hist :
        (/\ hist[k].how = "set"
         /\ last.op = "get"
         /\ last.args.key = k
         /\ last.args.use_cache)
        => last.ret.value = hist[k].value

C3_Witness ==
    /\ hist[KeyA].how = "set"
    /\ hist[KeyA].replaced = "v1"
    /\ hist[KeyA].value = "v2"
    /\ last.op = "get"
    /\ last.args.key = KeyA
    /\ last.args.use_cache
    /\ last.ret.value = "v2"

\* C4: while the last mutation of k is a delete_context(k) that returned
\* True, every get_context(k) that returns (cache enabled or not) returns
\* None and every delete_context(k) that returns returns False.
C4_DeleteThenAbsent ==
    [][\A k \in DOMAIN hist :
        hist[k].how = "deleted" =>
            /\ \A c \in BOOLEAN :
                  GetContext(k, c) =>
                      \/ Suspended
                      \/ last' = Returned("get", GetArgs(k, c),
                                          RetValue(None))
            /\ DeleteContext(k) =>
                  \/ Suspended
                  \/ last' = Returned("delete", DeleteArgs(k),
                                      RetBool(FALSE))]_vars

C4_Witness ==
    /\ hist[KeyA].how = "deleted"
    /\ last.op = "get"
    /\ last.args.key = KeyA
    /\ last.ret.value = None

\* C5: a set_context with an empty key or with ttl <= 0 returns False,
\* leaves the value map, the expiry map and the cache unchanged and emits
\* no event.
C5_RejectsMalformed ==
    [][\A k \in KeysValidate, v \in Values, t \in Ttls :
        (/\ SetContext(k, v, t)
         /\ k = EmptyKey \/ (t # NoTtl /\ t[1] <= 0))
        => (/\ last' = Returned("set", SetArgs(k, v, t), RetBool(FALSE))
            /\ UNCHANGED <<context_store, ttl_store, cache>>
            /\ emitted' = << >>)]_vars

\* C6: after a set_context(k, v) without ttl on a key that had a deadline,
\* and until the next mutation of k, k is not in the expiry map and every
\* get_context(k) that returns returns v.
C6_TtlCleared ==
    \A k \in DOMAIN hist :
        (hist[k].how = "set" /\ hist[k].cleared # << >>) =>
            /\ k \notin DOMAIN ttl_store
            /\ (last.op = "get" /\ last.args.key = k)
                   => last.ret.value = hist[k].value

C6_Witness ==
    /\ hist[KeyA].how = "set"
    /\ hist[KeyA].cleared # << >>
    /\ last.op = "get"
    /\ last.args.key = KeyA
    /\ ~last.args.use_cache
    /\ last.at > hist[KeyA].cleared[1]
    /\ last.ret.value = hist[KeyA].value

\* C7: list_keys(prefix) returns exactly the keys of the value map that
\* start with prefix and have no deadline <= now, and leaves the value map,
\* the expiry map and the cache unchanged.
C7_ListKeysLive ==
    [][\A p \in Prefixes :
        (ListKeys(p) /\ LockFree) =>
            /\ last'.op = "list"
            /\ last'.ret.keys = {k \in DOMAIN context_store :
                                    /\ StartsWith(k, p)
                                    /\ ~(k \in DOMAIN ttl_store
                                         /\ ttl_store[k] <= now)}
            /\ UNCHANGED <<context_store, ttl_store, cache>>]_vars
(***************************************************************************)
(* What the store contract expects of a bulk operation.                    *)
(***************************************************************************)
\* an operation the contract calls well-formed: a set or delete naming a
\* key, a set with a non-empty key and a ttl that is absent or >= 1
WellFormedOp(op) ==
    /\ op.operation \in {"set", "delete"}
    /\ op.has_key
    /\ op.operation = "set" =>
          /\ op.key # EmptyKey
          /\ op.ttl = NoTtl \/ op.ttl[1] >= 1

ExpectedStart(d) == [d |-> d, succeeded |-> 0, failed |-> 0]

\* every operation attempted in order; the well-formed ones that find
\* their key take effect and count as succeeded, the others as failed
RECURSIVE ExpectedBulk(_, _)
ExpectedBulk(acc, ops) ==
    IF ops = << >> THEN acc
    ELSE ExpectedBulk(
             IF /\ WellFormedOp(Head(ops))
                /\ Head(ops).operation = "delete" =>
                       Head(ops).key \in DOMAIN acc.d.context_store
             THEN [acc EXCEPT !.d = BulkApply(@, Head(ops), now, cache_ttl,
                                              max_cache_size),
                              !.succeeded = @ + 1]
             ELSE [acc EXCEPT !.failed = @ + 1],
             Tail(ops))

\* processing stops at the first operation that fails, which counts once
RECURSIVE ExpectedFailFast(_, _)
ExpectedFailFast(acc, ops) ==
    IF ops = << >> \/ acc.failed > 0 THEN acc
    ELSE ExpectedFailFast(
             IF ~BulkRaises(Head(ops)) /\ BulkSuccess(acc.d, Head(ops))
             THEN [acc EXCEPT !.d = BulkApply(@, Head(ops), now, cache_ttl,
                                              max_cache_size),
                              !.succeeded = @ + 1]
             ELSE [acc EXCEPT !.failed = 1],
             Tail(ops))

\* C8: a bulk_operation with fail_fast=False attempts every operation in
\* order; the well-formed ones take effect in the store, the malformed ones
\* do not, and succeeded and failed count the two groups.
C8_BulkCounts ==
    [][(/\ last'.op = "bulk"
        /\ ~last'.args.fail_fast
        /\ LockFree
        /\ BulkOperation(last'.args.operations, FALSE))
       => LET e == ExpectedBulk(ExpectedStart(Dicts),
                                last'.args.operations)
          IN /\ context_store' = e.d.context_store
             /\ ttl_store' = e.d.ttl_store
             /\ last'.ret.succeeded = e.succeeded
             /\ last'.ret.failed = e.failed]_vars

\* C9: a bulk_operation with fail_fast=True stops at the first failing
\* operation: nothing after it is applied, succeeded is the number of
\* operations before it and failed is 1.
C9_FailFastStops ==
    [][(/\ last'.op = "bulk"
        /\ last'.args.fail_fast
        /\ LockFree
        /\ BulkOperation(last'.args.operations, TRUE))
       => LET e == ExpectedFailFast(ExpectedStart(Dicts),
                                    last'.args.operations)
          IN /\ context_store' = e.d.context_store
             /\ ttl_store' = e.d.ttl_store
             /\ last'.ret.succeeded = e.succeeded
             /\ last'.ret.failed = e.failed]_vars

\* C10: the errors list of a bulk_operation with fail_fast=False has one
\* entry per failed operation.
C10_ErrorsMatchFailed ==
    (last.op = "bulk" /\ ~last.args.fail_fast)
    => Len(last.ret.errors) = last.ret.failed

\* C11: every bulk_operation emits no set or delete event of its own and
\* exactly one bulk_update event, which carries the final succeeded and
\* failed counts.
CarriesCounts(event, ret) ==
    /\ event.operation = "bulk_update"
    /\ event.succeeded = ret.succeeded
    /\ event.failed = ret.failed

C11_OneBulkEvent ==
    last.op = "bulk" =>
        /\ Len(emitted) = 1
        /\ CarriesCounts(emitted[1], last.ret)

\* C11 as amended: the bulk_update event is emitted when at least one
\* operation succeeded, and no event at all when none did.
C11_BulkEventIfSucceeded ==
    last.op = "bulk" =>
        IF last.ret.succeeded > 0
        THEN Len(emitted) = 1 /\ CarriesCounts(emitted[1], last.ret)
        ELSE emitted = << >>

C11_Witness ==
    /\ last.op = "bulk"
    /\ ~last.args.fail_fast
    /\ Len(last.args.operations) = 3
    /\ last.ret.succeeded = 2
    /\ last.ret.failed = 1
    /\ Len(emitted) = 1
    /\ emitted[1].succeeded = 2
    /\ emitted[1].failed = 1

\* what the store path of get_context has for key: the value of a key
\* that is present and not past its deadline, None otherwise
UncachedGet(key) ==
    IF key \in DOMAIN context_store /\ ~GetExpired(ttl_store, key, now)
    THEN context_store[key].value
    ELSE None

\* C17: in every reachable state a get_context(k, use_cache=True), which
\* returns the live cache entry of k when there is one and follows the
\* store path otherwise, returns what get_context(k, use_cache=False)
\* returns.
C17_CacheIsOptimisation ==
    \A k \in Keys :
        CacheLookup(cache, k, now) # None =>
            CacheLookup(cache, k, now) = UncachedGet(k)

(***************************************************************************)
(* Persistence and shutdown.                                               *)
(***************************************************************************)
\* C15: loading the snapshot that _persist_data wrote gives the value map
\* and the expiry map that were persisted, keys, values and absolute
\* deadlines.
C15_RoundTrip ==
    [][(/\ LoadPersisted
        /\ LockFree
        /\ loading.text = disk[FinalPath].text)
       => (/\ context_store' = durable.cs
           /\ ttl_store' = durable.ts
           /\ ListedKeys(context_store', ttl_store', EmptyKey, now)
                 = ListedKeys(durable.cs, durable.ts, EmptyKey, now))]_vars

C15_Witness ==
    /\ last.op = "init"
    /\ is_running
    /\ cleanup_task = "running"
    /\ durable.exists
    /\ KeyA \in DOMAIN context_store
    /\ context_store = durable.cs
    /\ KeyA \in DOMAIN ttl_store
    /\ ttl_store = durable.ts

\* C16: whatever the step at which the process ends, context.json is
\* absent or holds a complete snapshot: the text of the last flush whose
\* rename took effect.
C16_SnapshotNeverPartial ==
    disk[FinalPath].exists =>
        /\ Parses(disk[FinalPath].text)
        /\ durable.exists
        /\ LoadedStore(disk[FinalPath].text) = durable.cs
        /\ LoadedTtl(disk[FinalPath].text) = durable.ts

C16_Witness ==
    /\ last.op = "init"
    /\ ~is_running
    /\ persist.pc = "idle"
    /\ disk[TempPath].exists
    /\ disk[TempPath].text # << >>
    /\ ~Parses(disk[TempPath].text)
    /\ disk[FinalPath].exists
    /\ Parses(disk[FinalPath].text)

\* C18: shutdown() of a running manager ends both loops and starts the
\* final flush; when it returns, the snapshot on disk holds the in-memory
\* maps; shutdown() of a manager that is not running changes nothing.
C18_OrderlyShutdown ==
    [][/\ (Shutdown /\ is_running) =>
              /\ cleanup_task' # "running"
              /\ persistence_task' # "running"
              /\ persist'.pc = "opening"
       /\ (/\ PersistReplace
           /\ persist.owner = "shutdown"
           /\ context_store = persist.cs
           /\ ttl_store = persist.ts) =>
              /\ LoadedStore(disk'[FinalPath].text) = context_store'
              /\ LoadedTtl(disk'[FinalPath].text) = ttl_store'
       /\ (Shutdown /\ ~is_running) =>
              UNCHANGED <<context_store, ttl_store, cache, lock, is_running,
                          diskVars, taskVars>>]_vars

\* C20: in every reachable state every key of the expiry map is a key of
\* the value map.
C20_TtlKeysInStore == DOMAIN ttl_store \subseteq DOMAIN context_store

C20_Witness ==
    /\ last.op = "sweep"
    /\ KeyA \in last.ret.keys
    /\ KeyA \notin DOMAIN context_store
    /\ KeyB \in DOMAIN ttl_store

(***************************************************************************)
(* Change streams.                                                         *)
(***************************************************************************)
\* the queue of stream id after a mutation of key whose event is ed, as
\* the delivery rule has it
ExpectedQueue(id, key, ed) ==
    IF streams[id].state = "open" /\ StartsWith(key, streams[id].key_prefix)
    THEN Append(streams[id].queue, ed)
    ELSE streams[id].queue

\* C12: a committed set_context or delete_context of key k enqueues its
\* event to every registered subscription whose prefix is a prefix of k
\* and to no other subscription.
C12_PrefixDelivery ==
    [][\A k \in KeysSub :
        /\ (SetContext(k, "v1", NoTtl) /\ LockFree) =>
               \A id \in SubIds :
                  streams[id].key_prefix # NonePrefix =>
                     streams'[id].queue =
                        ExpectedQueue(id, k, EventDict(SetEvent(k, "v1")))
        /\ (DeleteContext(k) /\ LockFree /\ k \in DOMAIN context_store) =>
               \A id \in SubIds :
                  streams[id].key_prefix # NonePrefix =>
                     streams'[id].queue =
                        ExpectedQueue(id, k,
                            EventDict(DeleteEvent(k,
                                          context_store[k].value)))]_vars

\* C13: a subscription with the allowlist L yields exactly the offered
\* events whose change type (set, delete, bulk_update) is in L, and every
\* offered event when it has no allowlist.
C13_AllowlistByChangeType ==
    [][\A id \in SubIds :
        StreamNext(id) =>
            LET ed == Head(streams[id].queue)
                L == streams[id].event_types
            IN (last' = Returned("yield", SubArgs(id), RetEvent(ed)))
               <=> (L = {} \/ ed.data.operation \in L)]_vars

\* C14: a subscription opened with key_prefix=None receives the event of
\* every later set_context and delete_context, and those calls return
\* success.
C14_NonePrefixIsAllKeys ==
    [][\A k \in KeysSub, id \in SubIds :
        (streams[id].state = "open" /\ streams[id].key_prefix = NonePrefix)
        =>
        /\ (SetContext(k, "v1", NoTtl) /\ LockFree) =>
               /\ streams'[id].queue =
                     Append(streams[id].queue, EventDict(SetEvent(k, "v1")))
               /\ last' = Returned("set", SetArgs(k, "v1", NoTtl),
                                   RetBool(TRUE))
        /\ (DeleteContext(k) /\ LockFree /\ k \in DOMAIN context_store) =>
               /\ streams'[id].queue =
                     Append(streams[id].queue,
                            EventDict(DeleteEvent(k, context_store[k].value)))
               /\ last' = Returned("delete", DeleteArgs(k),
                                   RetBool(TRUE))]_vars

\* C19: the queue of a closed stream is in no item of the registry and no
\* later step enqueues to it, and closing a closed stream leaves the
\* registry and the streams as they are.
C19_ClosedIsDeregistered ==
    [][\A id \in SubIds :
        streams'[id].state = "closed" =>
            /\ \A i \in DOMAIN subscriptions' :
                  id \notin subscriptions'[i].queues
            /\ streams[id].state = "closed" =>
                  /\ streams'[id].queue = streams[id].queue
                  /\ StreamClose(id) => UNCHANGED subVars]_vars

C19_Witness ==
    /\ streams[1].state = "closed"
    /\ \E i \in DOMAIN subscriptions :
          subscriptions[i] = [prefix |-> EmptyKey, queues |-> {2}]
    /\ streams[2].state = "open"
    /\ last = Returned("set", SetArgs(KeyAB, "v1", NoTtl), RetBool(TRUE))
    /\ streams[1].queue = << >>
    /\ streams[2].queue = <<EventDict(SetEvent(KeyAB, "v1"))>>
    /\ Len(subscriptions) = 1

(***************************************************************************)
(* The expiry sweep.                                                       *)
(***************************************************************************)
\* the deadline of key has passed
Overdue(key) == key \in DOMAIN ttl_store /\ ttl_store[key] <= now

\* C21: while the manager is running, a key whose deadline has passed is
\* eventually out of the value map, the expiry map and the cache (or has
\* been written again with a later deadline), whatever calls ran before.
C21_SweepEventuallyDeletes ==
    \A k \in KeysHist :
        (is_running /\ cleanup_task = "running" /\ Overdue(k))
            ~> \/ ~is_running
               \/ ~Overdue(k) /\ (k \in DOMAIN context_store
                                    \/ k \notin DOMAIN cache)

\* a step of _cleanup_expired_loop
SweepLoopStep == Sweep \/ SweepRedis \/ SweepAcquired \/ SweepRedisDone

\* C22: a step of the expiry sweep removes no key that, at that moment,
\* has no deadline or a deadline in the future: such a key keeps its
\* entry and its deadline, also when a set_context wrote it between the
\* sweep's scan and the sweep's delete of that key.
C22_SweepDeletesOnlyOverdue ==
    [][SweepLoopStep =>
          \A k \in DOMAIN context_store :
              (k \notin DOMAIN ttl_store \/ ttl_store[k] > now) =>
                  /\ k \in DOMAIN context_store'
                  /\ context_store'[k] = context_store[k]
                  /\ k \in DOMAIN ttl_store <=> k \in DOMAIN ttl_store'
                  /\ k \in DOMAIN ttl_store =>
                         ttl_store'[k] = ttl_store[k]]_vars

\* C23: the events of one key reach a subscription in the order in which
\* the mutations were applied to the store: in every queue the events of
\* one key stand in the order of their mutations, an event that a stream
\* has just yielded is older than the events of its key still queued for
\* that stream, and every mutation still to come is younger than the
\* events queued.
SameKey(e, f) == e.data.key = f.data.key

C23_PerKeyEventOrder ==
    \A id \in SubIds :
        LET q == streams[id].queue IN
        /\ \A i, j \in DOMAIN q :
               (i < j /\ SameKey(q[i], q[j])) =>
                   q[i].mutation < q[j].mutation
        /\ \A i \in DOMAIN q : q[i].mutation < applied
        /\ (last.op = "yield" /\ last.args.sub = id) =>
               \A i \in DOMAIN q :
                   SameKey(last.ret.event, q[i]) =>
                       last.ret.event.mutation < q[i].mutation

\* a queue holds the set of a key and, behind it, the delete of that key
\* by the sweep that ran while the set_context was in flight
C23_Witness ==
    \E id \in SubIds :
        LET q == streams[id].queue IN
        /\ Len(q) = 2
        /\ SameKey(q[1], q[2])
        /\ q[1].data.operation = "set"
        /\ q[2].data.operation = "delete"

\* the step puts an event on the queue of stream id
Enqueued(id) == Len(streams'[id].queue) > Len(streams[id].queue)

C25_CreatedAtSetOnce ==
    [][\A k \in DOMAIN stamps :
          (/\ last'.op = "set"
           /\ last'.args.key = k
           /\ last'.ret.ok
           /\ k \in DOMAIN context_store
           /\ stamps[k] # NoStamps)
          => /\ stamps'[k].created_at = stamps[k].created_at
             /\ stamps'[k].updated_at = now
             /\ stamps'[k].created_at <= stamps'[k].updated_at]_vars

\* C26: the snapshot a flush writes is the value map and the expiry map
\* as they were when the flush held the store lock: a set or delete that
\* is committed after the flush released the lock and before the file is
\* written is not in the snapshot.
C26_SnapshotAtLockInstant ==
    persist.pc \in {"writing", "replacing"} =>
        persist.doc = SnapshotText(persist.seen.cs, persist.seen.ts,
                                   persist.at)

\* initialize() has returned: the load is over and the loops are started
Initialized ==
    /\ is_running
    /\ loading.pc = "idle"
    /\ cleanup_task = "running"

\* C27: the startup load discards no write: a key that set_context wrote
\* before or while initialize() loaded the snapshot, and that was not
\* deleted since, is in the store with the value written once
\* initialize() has returned.
C27_LoadKeepsWrites ==
    Initialized =>
        \A k \in DOMAIN hist :
            hist[k].how = "set" =>
                /\ k \in DOMAIN context_store
                /\ context_store[k].value = hist[k].value

\* C28: whenever no call holds the store lock, every entry of the local
\* cache whose cache expiry has not passed is an entry of the value map
\* with the same value: the cache holds no value of a deleted key and no
\* value older than the store's.
C28_CacheCoherent ==
    LockFree =>
        \A k \in DOMAIN cache :
            cache[k].expiry > now =>
                /\ k \in DOMAIN context_store
                /\ context_store[k].value = cache[k].value

ItemsToRemove == Max(1, max_cache_size \div 10)

\* C30: the local cache never holds more than max_cache_size entries, and
\* a set_context that finds the cache at its maximum size removes
\* max(1, max_cache_size // 10) entries, none of them with a later cache
\* expiry than an entry it keeps, and then inserts the new entry.
C30_CacheBounded ==
    /\ [](Cardinality(DOMAIN cache) <= max_cache_size)
    /\ [][(/\ last'.op = "set"
           /\ last'.ret.ok
           /\ cache' # cache
           /\ Cardinality(DOMAIN cache) >= max_cache_size)
          => \E E \in SUBSET DOMAIN cache :
                 /\ Cardinality(E) = ItemsToRemove
                 /\ \A e \in E, s \in DOMAIN cache \ E :
                        cache[e].expiry <= cache[s].expiry
                 /\ DOMAIN cache' = (DOMAIN cache \ E)
                                        \cup {last'.args.key}
                 /\ \A s \in DOMAIN cache \ (E \cup {last'.args.key}) :
                        cache'[s] = cache[s]
                 /\ cache'[last'.args.key].value = last'.args.value]_vars

\* a cache of 20 entries was full when the 21st key was written: two
\* entries were removed and the new one inserted
C30_Witness ==
    /\ max_cache_size = 20
    /\ last.op = "set"
    /\ last.args.key = KeyOf(20)
    /\ Cardinality(DOMAIN context_store) = 21
    /\ Cardinality(DOMAIN cache) = 19
    /\ KeyOf(20) \in DOMAIN cache
====
